---- MODULE Spec2Model ----
(***************************************************************************)
(* Model of the ammunition readers of Tank/stepper/missile.py.            *)
(*                                                                         *)
(* A Python str is modelled as a sequence of one-character strings, a      *)
(* file as the str of its bytes and a file position as a byte offset.      *)
(* Each reader is a Python generator: the consumer pulls (next()), the     *)
(* generator body runs step by step until it yields, raises or returns.    *)
(***************************************************************************)
EXTENDS Integers, Sequences, FiniteSets, TLC

(***************************************************************************)
(* Bounds of the model.                                                    *)
(***************************************************************************)
\* pieces a chunk-format input file is concatenated from
MaxPieces == 3
\* pieces a line-format input file is concatenated from
MaxLines == 4
\* next() calls the consumer makes
MaxPulls == 4
\* restarts after which the model stops following the reader
MaxLoops == 3
\* bytes of the longest body handed to HttpAmmo in HttpSpec
MaxBody == 2
\* pieces of an input file in LiveSpec
MaxLivePieces == 1
\* the largest loop_limit and ammo_limit a factory is built with
MaxLimit == 2
\* URIs in the longest uris list
MaxUris == 2

(***************************************************************************)
(* Python str operations used by the readers.                              *)
(***************************************************************************)
\* None; str.split() never yields an empty field, so no marker equals it
None == <<>>

Digits == {"0", "1", "2", "3", "4", "5", "6", "7", "8", "9"}

DigitVal == [c \in Digits |-> CASE c = "0" -> 0 [] c = "1" -> 1 [] c = "2" -> 2
                                [] c = "3" -> 3 [] c = "4" -> 4 [] c = "5" -> 5
                                [] c = "6" -> 6 [] c = "7" -> 7 [] c = "8" -> 8
                                [] c = "9" -> 9]

DigitChar == [d \in 0..9 |-> CHOOSE c \in Digits : DigitVal[c] = d]

\* characters str.split() with no argument separates on
Whitespace == {" ", "\t", "\n", "\r"}

Min(a, b) == IF a < b THEN a ELSE b

\* s.startswith(c) for a one-character prefix c
startswith(s, c) == Len(s) > 0 /\ s[1] = c

\* s.strip(chars)
strip(s, chars) ==
    LET keep == {i \in 1..Len(s) : s[i] \notin chars}
    IN  IF keep = {} THEN <<>>
        ELSE SubSeq(s, CHOOSE i \in keep : \A j \in keep : i <= j,
                       CHOOSE i \in keep : \A j \in keep : i >= j)

\* s.rstrip(chars)
rstrip(s, chars) ==
    LET keep == {i \in 1..Len(s) : s[i] \notin chars}
    IN  IF keep = {} THEN <<>>
        ELSE SubSeq(s, 1, CHOOSE i \in keep : \A j \in keep : i >= j)

\* s.lstrip(chars)
lstrip(s, chars) ==
    LET keep == {i \in 1..Len(s) : s[i] \notin chars}
    IN  IF keep = {} THEN <<>>
        ELSE SubSeq(s, CHOOSE i \in keep : \A j \in keep : i <= j, Len(s))

\* s.split(): the maximal runs of non-whitespace characters, in order; a run
\* starts at each non-whitespace character that follows whitespace or
\* starts the string
split(s) ==
    LET starts == {i \in 1..Len(s) : s[i] \notin Whitespace
                                      /\ (i = 1 \/ s[i - 1] \in Whitespace)}
        start(k) == CHOOSE i \in starts : Cardinality({j \in starts : j <= i}) = k
        end(i) == CHOOSE e \in i..Len(s) :
                      /\ \A j \in i..e : s[j] \notin Whitespace
                      /\ (e = Len(s) \/ s[e + 1] \in Whitespace)
    IN  [k \in 1..Cardinality(starts) |-> SubSeq(s, start(k), end(start(k)))]

RECURSIVE DecValue(_)
\* value of a string of decimal digits
DecValue(s) ==
    IF s = <<>> THEN 0 ELSE 10 * DecValue(SubSeq(s, 1, Len(s) - 1)) + DigitVal[s[Len(s)]]

\* the digits of an int() literal: an optional sign, then the digits
IntDigits(s) == IF Len(s) > 0 /\ s[1] \in {"+", "-"} THEN Tail(s) ELSE s

\* int(s) raises ValueError
IntFails(s) == IntDigits(s) = <<>> \/ \E i \in 1..Len(IntDigits(s)) : IntDigits(s)[i] \notin Digits

\* int(s), where it does not raise
int(s) == IF s[1] = "-" THEN 0 - DecValue(IntDigits(s)) ELSE DecValue(IntDigits(s))

RECURSIVE Dec(_)
\* "%s" % n for an int n >= 0
Dec(n) == IF n < 10 THEN <<DigitChar[n]>> ELSE Dec(n \div 10) \o <<DigitChar[n % 10]>>

(***************************************************************************)
(* File objects: readline(), read(n) and tell() on the bytes f at offset p.*)
(***************************************************************************)
\* offset after ammo_file.readline() at offset p
LineEnd(f, p) ==
    LET nl == {i \in (p + 1)..Len(f) : f[i] = "\n"}
    IN  IF nl = {} THEN Len(f) ELSE CHOOSE i \in nl : \A j \in nl : i <= j

\* ammo_file.readline() at offset p: '' at end of file
readline(f, p) == SubSeq(f, p + 1, LineEnd(f, p))

\* ammo_file.read(n) at offset p: up to n bytes, all that is left for n < 0
read(f, p, n) == IF n < 0 THEN SubSeq(f, p + 1, Len(f)) ELSE SubSeq(f, p + 1, Min(p + n, Len(f)))

(***************************************************************************)
(* HttpAmmo (missile.py, class HttpAmmo).                                  *)
(***************************************************************************)
GET == <<"G", "E", "T">>

POST == <<"P", "O", "S", "T">>

\* the default http_ver, '1.1'
HttpVer == <<"1", ".", "1">>

CRLF == <<"\r", "\n">>

\* "Content-Length: "
ContentLengthPrefix ==
    <<"C", "o", "n", "t", "e", "n", "t", "-", "L", "e", "n", "g", "t", "h", ":", " ">>

\* "Content-Length: %s" % len(body)
ContentLength(body) == ContentLengthPrefix \o Dec(Len(body))

\* HttpAmmo.__init__
HttpAmmo(uri, hdrs, method, http_ver, body) ==
    [method |-> method,
     uri |-> uri,
     proto |-> <<"H", "T", "T", "P", "/">> \o http_ver,
     headers |-> IF Len(body) # 0 THEN hdrs \cup {ContentLength(body)} ELSE hdrs,
     body |-> body]

\* the caller's header set after the call, had __init__ kept the set passed
\* in (self.headers = headers) and added the Content-Length to it
caller_headers_shared(hdrs, body) ==
    IF Len(body) # 0 THEN hdrs \cup {ContentLength(body)} ELSE hdrs

\* the caller's header set after HttpAmmo(uri, headers, ...): __init__ works
\* on set(headers), a copy, and the set passed in is left as it was
caller_headers(hdrs, body) == hdrs

\* HttpAmmo.to_s: the request line, the header lines (a set is joined in no
\* order a caller may rely on, so they stay a set of lines) and the blank
\* line followed by the body
to_s(a) ==
    [line |-> a.method \o <<" ">> \o a.uri \o <<" ">> \o a.proto \o CRLF,
     headers |-> {h \o CRLF : h \in a.headers},
     tail |-> CRLF \o a.body]

(***************************************************************************)
(* Input files.  A chunk is written as its header line followed by its     *)
(* payload; a file is a concatenation of pieces.                           *)
(***************************************************************************)
\* the chunk '<len> [marker]\n<payload>' of the phantom format
Encode(c) ==
    Dec(Len(c.payload)) \o (IF c.marker = None THEN <<>> ELSE <<" ">> \o c.marker)
        \o <<"\n">> \o c.payload

\* well-formed chunks: one without a marker, one with a marker and a line
\* break inside its payload
Chunks ==
    {[payload |-> <<"A">>, marker |-> None],
     [payload |-> <<"B", "\n">>, marker |-> <<"m">>]}

ChunkPieces == {Encode(c) : c \in Chunks}

\* the other pieces: a zero-length sentinel, a blank line, a non-numeric
\* header, a whitespace-only header, a negative length, a length larger than
\* the payload that follows
PhantomPieces ==
    ChunkPieces \cup
    {<<"0", "\n">>, <<"\r", "\n">>, <<"x", "\n">>, <<" ", "\n">>,
     <<"-", "1", "\n">>, <<"3", "\n", "A">>}

SeqsUpTo(S, n) == UNION {[1..k -> S] : k \in 0..n}

RECURSIVE Flatten(_)
Flatten(ps) == IF ps = <<>> THEN <<>> ELSE Head(ps) \o Flatten(Tail(ps))

\* the chunk '<len> <uri> [marker]\n<payload>' of the uripost format
EncodePost(c) ==
    Dec(Len(c.payload)) \o <<" ">> \o c.uri
        \o (IF c.marker = None THEN <<>> ELSE <<" ">> \o c.marker)
        \o <<"\n">> \o c.payload

PostChunks ==
    {[payload |-> <<"A">>, uri |-> <<"/", "a">>, marker |-> None],
     [payload |-> <<"B", "C">>, uri |-> <<"/", "b">>, marker |-> <<"m">>]}

PostChunkPieces == {EncodePost(c) : c \in PostChunks}

\* '[H: 1]\n', a bracket line
BracketH == <<"[", "H", ":", " ", "1", "]", "\n">>

\* the other pieces: a bracket line, a zero-length sentinel, a blank line, a
\* length larger than the payload that follows, a header without a URI
UriPostPieces ==
    PostChunkPieces \cup
    {BracketH, <<"0", "\n">>, <<"\n">>, <<"3", " ", "/", "c", "\n", "A">>,
     <<"1", "\n", "A">>}

\* slow log: a comment line and two request lines
SlowLogPieces == {<<"#", "\n">>, <<"A", "\n">>, <<"B", "\n">>}

\* line format: a line, a line ending in CR LF, an empty line
LinePieces == {<<"A", "\n">>, <<"B", "\r", "\n">>, <<"\n">>}

\* '[X: 1]\n'
BracketX == <<"[", "X", ":", " ", "1", "]", "\n">>

\* '[Y: 2]\n'
BracketY == <<"[", "Y", ":", " ", "2", "]", "\n">>

\* 'foo\n'
LineFoo == <<"f", "o", "o", "\n">>

\* 'bar\n'
LineBar == <<"b", "a", "r", "\n">>

\* URI list: two bracket lines, two URIs, an empty line
UriPieces == {BracketX, LineFoo, BracketY, LineBar, <<"\n">>}

PiecesOf(k) ==
    CASE k = "phantom" -> PhantomPieces
      [] k = "uripost" -> UriPostPieces
      [] k = "slowlog" -> SlowLogPieces
      [] k = "line" -> LinePieces
      [] k = "uri" -> UriPieces

BoundOf(k) == IF k \in {"phantom", "uripost"} THEN MaxPieces ELSE MaxLines

\* the keys of af_readers in ComponentFactory.get_ammo_generator
Kinds == {"phantom", "slowlog", "line", "uri", "uripost"}

\* the headers argument of UriReader and UriPostReader: none, or 'K: v'
ConfiguredHeaders == {{}, {<<"K", ":", " ", "v">>}}

(***************************************************************************)
(* State.                                                                  *)
(***************************************************************************)
VARIABLES
    kind,          \* the reader class built for the file
    pieces,        \* the pieces the file was written from (history)
    file,          \* the bytes of the file
    opened,        \* the file handle: "no", "open" or "closed"
    pos,           \* ammo_file.tell()
    pc,            \* where the generator stands
    pulling,       \* the consumer is inside next()
    chunk_header,  \* the local chunk_header
    headers,       \* self.headers
    cfg_headers,   \* the headers argument the reader was built with
    args,          \* the arguments of the last HttpAmmo(...) call made directly
    request,       \* the local request of SlowLogReader
    loop_count,    \* info.status.loop_count
    af_position,   \* info.status.af_position
    af_size,       \* info.status.af_size
    out,           \* the record the last yield delivered
    nrec,          \* records delivered so far (history)
    npull,         \* next() calls made so far (history)
    result,        \* how the last next() or call ended
    ammo_count,    \* info.status.ammo_count
    status,        \* info.status: loop_limit, ammo_limit and what was published
    factory        \* the fields of the ComponentFactory, once constructed

vars == <<kind, pieces, file, cfg_headers, args, opened, pos, pc, pulling, chunk_header, headers,
          request, loop_count, af_position, af_size, out, nrec, npull, result,
          ammo_count, status, factory>>

\* what no file reader touches: ammo_count is the consumer's, status and
\* factory are the ComponentFactory's
setupVars == <<ammo_count, status, factory>>

inputVars == <<kind, pieces, file, cfg_headers, args>>

Init ==
    /\ kind \in Kinds
    /\ pieces \in SeqsUpTo(PiecesOf(kind), BoundOf(kind))
    /\ file = Flatten(pieces)
    /\ opened = "no"
    /\ pos = 0
    /\ pc = "start"
    /\ pulling = FALSE
    /\ chunk_header = <<>>
    /\ headers \in (IF kind \in {"uri", "uripost"} THEN ConfiguredHeaders ELSE {{}})
    /\ cfg_headers = headers
    /\ args = <<>>
    /\ request = <<>>
    /\ loop_count = 0
    /\ af_position = 0
    /\ af_size = 0
    /\ out = <<>>
    /\ nrec = 0
    /\ npull = 0
    /\ result = "none"
    /\ ammo_count = 0
    /\ status = <<>>
    /\ factory = <<>>

(***************************************************************************)
(* The status sink (module info, used but not defined by these files).     *)
(***************************************************************************)
\* info.status.inc_loop_count()
inc_loop_count(c) == c + 1

\* The counter has no upper limit.  The model follows a reader while the
\* counter is below MaxLoops; with wrap (LiveSpec) it keeps the counter
\* modulo MaxLoops + 1 instead and follows the reader for ever.  No reader
\* reads the counter, so its control flow is the same either way.
CanRestart(wrap) == wrap \/ loop_count < MaxLoops

Restarted(wrap) ==
    IF wrap THEN inc_loop_count(loop_count) % (MaxLoops + 1) ELSE inc_loop_count(loop_count)

(***************************************************************************)
(* The consumer.                                                           *)
(***************************************************************************)
\* next() on a generator that has not finished
Pull ==
    /\ ~pulling
    /\ pc \in {"start", "yielded"}
    /\ npull < MaxPulls
    /\ pulling' = TRUE
    /\ npull' = npull + 1
    /\ UNCHANGED <<inputVars, setupVars, opened, pos, pc, chunk_header, headers, request,
                   loop_count, af_position, af_size, out, nrec, result>>

\* next() on a generator that has returned or raised: StopIteration
PullFinished ==
    /\ ~pulling
    /\ pc \in {"done", "failed"}
    /\ npull < MaxPulls
    /\ npull' = npull + 1
    /\ result' = "StopIteration"
    /\ UNCHANGED <<inputVars, setupVars, opened, pos, pc, pulling, chunk_header, headers,
                   request, loop_count, af_position, af_size, out, nrec>>

\* the handle after a with block that does not close it
with_exit_leak(handle) == handle

\* the handle after 'with ... as ammo_file:' is left, by a return, by an
\* exception or by the generator being closed at its yield
with_exit(handle) == "closed"

\* the consumer abandons the sequence and never pulls again: the generator
\* is closed (close(), or the last reference to it dropped), GeneratorExit
\* is raised at the yield where it stands and leaves the with block; a
\* generator that was never started has opened nothing
Abandon ==
    /\ ~pulling
    /\ pc \in {"start", "yielded"}
    /\ pc' = "abandoned"
    /\ opened' = IF pc = "yielded" THEN with_exit(opened) ELSE opened
    /\ UNCHANGED <<inputVars, setupVars, pos, pulling, chunk_header, headers, request,
                   loop_count, af_position, af_size, out, nrec, npull, result>>

(***************************************************************************)
(* AmmoFileReader.__iter__                                                 *)
(***************************************************************************)
\* the offsets at which the readline() calls made from offset p on start
LinesFrom(f, p) == {q \in p..(Len(f) - 1) : q = p \/ f[q] = "\n"}

\* read_chunk_header without its loop: the first line read is returned even
\* when it is empty once stripped
AFR_read_chunk_header_noskip(f, p) ==
    [header |-> strip(readline(f, p), {"\r", "\n"}), pos |-> LineEnd(f, p)]

\* read_chunk_header: readline() until a line is not '' once its line break
\* is stripped, or until readline() returns '' at the end of the file; the
\* header, and the offset the file is left at
AFR_read_chunk_header(f, p) ==
    LET heads == {q \in LinesFrom(f, p) : strip(readline(f, q), {"\r", "\n"}) # <<>>}
        at == CHOOSE q \in heads : \A r \in heads : q <= r
    IN  IF heads = {} THEN [header |-> <<>>, pos |-> Len(f)]
        ELSE [header |-> strip(readline(f, at), {"\r", "\n"}), pos |-> LineEnd(f, at)]

\* marker = fields[1] if len(fields) > 1 else None
AFR_marker(fields) == IF Len(fields) > 1 THEN fields[2] ELSE None

\* a zero-sized chunk handled without ammo_file.seek(0)
AFR_start_over_noseek(f) == AFR_read_chunk_header(f, pos)

\* a zero-sized chunk: ammo_file.seek(0), then read_chunk_header
AFR_start_over(f) == AFR_read_chunk_header(f, 0)

\* the end of the file handled without ammo_file.seek(0)
AFR_rewind_noseek(f) == AFR_read_chunk_header(f, Len(f))

\* the end of the file: ammo_file.seek(0), then read_chunk_header
AFR_rewind(f) == AFR_read_chunk_header(f, 0)

\* the length check left out
AFR_short_read_never(missile, chunk_size) == FALSE

\* len(missile) < chunk_size
AFR_short_read(missile, chunk_size) == Len(missile) < chunk_size

\* fields[0] raises IndexError or int(fields[0]) raises ValueError
AFR_header_error(fields) == Len(fields) = 0 \/ IntFails(fields[1])

\* the generator returns or raises: the with block closes the file
Finish(how, p) ==
    /\ pc' = IF how = "StopIteration" THEN "done" ELSE "failed"
    /\ result' = how
    /\ pulling' = FALSE
    /\ opened' = with_exit(opened)
    /\ pos' = p
    /\ UNCHANGED <<inputVars, setupVars, chunk_header, headers, request, loop_count,
                   af_position, af_size, out, nrec, npull>>

\* yield rec
Yield(rec, p) ==
    /\ pc' = "yielded"
    /\ out' = rec
    /\ nrec' = nrec + 1
    /\ result' = "record"
    /\ pulling' = FALSE
    /\ pos' = p

\* the first next(): open the file, publish its size, read the first header
AFR_Open ==
    /\ kind = "phantom" /\ pulling /\ pc = "start"
    /\ opened' = "open"
    /\ af_size' = Len(file)
    /\ chunk_header' = AFR_read_chunk_header(file, 0).header
    /\ pos' = AFR_read_chunk_header(file, 0).pos
    /\ pc' = "while"
    /\ UNCHANGED <<inputVars, setupVars, pulling, headers, request, loop_count, af_position,
                   out, nrec, npull, result>>

\* one pass of 'while chunk_header:' up to its yield, continue, raise or exit
AFR_Loop(wrap) ==
    /\ kind = "phantom" /\ pulling /\ pc = "while"
    /\ LET fields == split(chunk_header)
           chunk_size == int(fields[1])
           missile == read(file, pos, chunk_size)
           again == AFR_start_over(file)
       IN  IF chunk_header = <<>> THEN Finish("StopIteration", pos)
           ELSE IF AFR_header_error(fields) THEN Finish("AmmoFileError", pos)
           ELSE IF chunk_size = 0
           THEN /\ CanRestart(wrap)
                /\ loop_count' = Restarted(wrap)
                /\ chunk_header' = again.header
                /\ pos' = again.pos
                /\ UNCHANGED <<inputVars, setupVars, opened, pc, pulling, headers, request,
                               af_position, af_size, out, nrec, npull, result>>
           ELSE IF AFR_short_read(missile, chunk_size)
           THEN Finish("AmmoFileError", pos + Len(missile))
           ELSE /\ Yield(<<missile, AFR_marker(fields)>>, pos + Len(missile))
                /\ UNCHANGED <<inputVars, setupVars, opened, chunk_header, headers, request,
                               loop_count, af_position, af_size, npull>>

\* after the yield: read the next header, start over at end of file, publish
\* the position
AFR_Resume(wrap) ==
    /\ kind = "phantom" /\ pulling /\ pc = "yielded"
    /\ LET next == AFR_read_chunk_header(file, pos)
           again == AFR_rewind(file)
       IN  IF next.header = <<>>
           THEN /\ CanRestart(wrap)
                /\ loop_count' = Restarted(wrap)
                /\ chunk_header' = again.header
                /\ pos' = again.pos
                /\ af_position' = again.pos
           ELSE /\ chunk_header' = next.header
                /\ pos' = next.pos
                /\ af_position' = next.pos
                /\ UNCHANGED loop_count
    /\ pc' = "while"
    /\ UNCHANGED <<inputVars, setupVars, opened, pulling, headers, request, af_size, out,
                   nrec, npull, result>>

(***************************************************************************)
(* UriPostReader.__iter__                                                  *)
(***************************************************************************)
\* read_chunk_header as in AmmoFileReader: a line that starts with '[' is
\* not set apart
UPR_read_chunk_header_plain(f, p, hs) ==
    [header |-> AFR_read_chunk_header(f, p).header,
     pos |-> AFR_read_chunk_header(f, p).pos, headers |-> hs]

\* read_chunk_header: as in AmmoFileReader, but a line that starts with '['
\* is added to self.headers (hs) and the scan goes on; the header, the
\* offset the file is left at, and self.headers
UPR_read_chunk_header(f, p, hs) ==
    LET heads == {q \in LinesFrom(f, p) :
                     /\ ~startswith(readline(f, q), "[")
                     /\ strip(readline(f, q), {"\r", "\n"}) # <<>>}
        at == IF heads = {} THEN Len(f) ELSE CHOOSE q \in heads : \A r \in heads : q <= r
        added == {strip(readline(f, q), {"\r", "\n", "[", "]", "\t", " "}) :
                     q \in {r \in LinesFrom(f, p) : r < at /\ startswith(readline(f, r), "[")}}
    IN  IF heads = {} THEN [header |-> <<>>, pos |-> Len(f), headers |-> hs \cup added]
        ELSE [header |-> strip(readline(f, at), {"\r", "\n"}), pos |-> LineEnd(f, at),
              headers |-> hs \cup added]

\* marker = fields[2] if len(fields) > 2 else None
UPR_marker(fields) == IF Len(fields) > 2 THEN fields[3] ELSE None

\* len(missile) < chunk_size
UPR_short_read(missile, chunk_size) == Len(missile) < chunk_size

\* a zero-sized chunk handled without ammo_file.seek(0)
UPR_start_over_noseek(f, hs) == UPR_read_chunk_header(f, pos, hs)

\* a zero-sized chunk: ammo_file.seek(0), then read_chunk_header
UPR_start_over(f, hs) == UPR_read_chunk_header(f, 0, hs)

\* the end of the file: ammo_file.seek(0), then read_chunk_header
UPR_rewind(f, hs) == UPR_read_chunk_header(f, 0, hs)

UPR_Open ==
    /\ kind = "uripost" /\ pulling /\ pc = "start"
    /\ opened' = "open"
    /\ af_size' = Len(file)
    /\ LET first == UPR_read_chunk_header(file, 0, headers)
       IN  /\ chunk_header' = first.header
           /\ pos' = first.pos
           /\ headers' = first.headers
    /\ pc' = "while"
    /\ UNCHANGED <<inputVars, setupVars, pulling, request, loop_count, af_position, out,
                   nrec, npull, result>>

UPR_Loop(wrap) ==
    /\ kind = "uripost" /\ pulling /\ pc = "while"
    /\ LET fields == split(chunk_header)
           chunk_size == int(fields[1])
           missile == read(file, pos, chunk_size)
           again == UPR_start_over(file, headers)
       IN  IF chunk_header = <<>> THEN Finish("StopIteration", pos)
           ELSE IF Len(fields) = 0 \/ IntFails(fields[1]) THEN Finish("AmmoFileError", pos)
           ELSE IF chunk_size = 0
           THEN /\ CanRestart(wrap)
                /\ loop_count' = Restarted(wrap)
                /\ chunk_header' = again.header
                /\ pos' = again.pos
                /\ headers' = again.headers
                /\ UNCHANGED <<inputVars, setupVars, opened, pc, pulling, request,
                               af_position, af_size, out, nrec, npull, result>>
           ELSE IF Len(fields) < 2 THEN Finish("AmmoFileError", pos)
           ELSE IF UPR_short_read(missile, chunk_size)
           THEN Finish("AmmoFileError", pos + Len(missile))
           ELSE /\ Yield(<<to_s(HttpAmmo(fields[2], headers, POST, HttpVer, missile)),
                           UPR_marker(fields)>>, pos + Len(missile))
                /\ headers' = caller_headers(headers, missile)
                /\ UNCHANGED <<inputVars, setupVars, opened, chunk_header, request,
                               loop_count, af_position, af_size, npull>>

UPR_Resume(wrap) ==
    /\ kind = "uripost" /\ pulling /\ pc = "yielded"
    /\ LET next == UPR_read_chunk_header(file, pos, headers)
           again == UPR_rewind(file, next.headers)
       IN  IF next.header = <<>>
           THEN /\ CanRestart(wrap)
                /\ loop_count' = Restarted(wrap)
                /\ chunk_header' = again.header
                /\ pos' = again.pos
                /\ headers' = again.headers
                /\ af_position' = again.pos
           ELSE /\ chunk_header' = next.header
                /\ pos' = next.pos
                /\ headers' = next.headers
                /\ af_position' = next.pos
                /\ UNCHANGED loop_count
    /\ pc' = "while"
    /\ UNCHANGED <<inputVars, setupVars, opened, pulling, request, af_size, out, nrec,
                   npull, result>>

(***************************************************************************)
(* The line-oriented readers iterate over the file object, 'for line in    *)
(* ammo_file'; pos is the offset of the next line the loop gets.           *)
(***************************************************************************)
\* what ammo_file.tell() may return inside the for loop once the line ending
\* at offset p has been handed out: p from a GzipFile, the end of the
\* read-ahead buffer from a plain file, which for a file shorter than the
\* buffer is the end of the file
TellInLoop(f, p) == {p, Len(f)}

\* the for loop is exhausted: ammo_file.seek(0), af_position = 0,
\* inc_loop_count(), and 'while True' starts the for loop again
StartOver(wrap) ==
    /\ CanRestart(wrap)
    /\ pos' = 0
    /\ af_position' = 0
    /\ loop_count' = Restarted(wrap)
    /\ UNCHANGED <<inputVars, setupVars, opened, pc, pulling, chunk_header, headers, request,
                   af_size, out, nrec, npull, result>>

(***************************************************************************)
(* SlowLogReader.__iter__                                                  *)
(***************************************************************************)
\* the pending request cleared at the end of the file
SlowLog_at_eof_clear(req) == <<>>

\* the for loop is exhausted: request is not touched
SlowLog_at_eof(req) == req

SlowLog_Open ==
    /\ kind = "slowlog" /\ pulling /\ pc = "start"
    /\ opened' = "open"
    /\ af_size' = Len(file)
    /\ request' = <<>>
    /\ pc' = "for"
    /\ UNCHANGED <<inputVars, setupVars, pos, pulling, chunk_header, headers, loop_count,
                   af_position, out, nrec, npull, result>>

SlowLog_For(wrap) ==
    /\ kind = "slowlog" /\ pulling /\ pc = "for"
    /\ LET line == readline(file, pos)
       IN  IF line = <<>>
           THEN /\ CanRestart(wrap)
                /\ pos' = 0
                /\ af_position' = 0
                /\ loop_count' = Restarted(wrap)
                /\ request' = SlowLog_at_eof(request)
                /\ UNCHANGED <<inputVars, setupVars, opened, pc, pulling, chunk_header, headers,
                               af_size, out, nrec, npull, result>>
           ELSE /\ af_position' \in TellInLoop(file, LineEnd(file, pos))
                /\ IF startswith(line, "#")
                   THEN IF request # <<>>
                        THEN /\ Yield(<<request, None>>, LineEnd(file, pos))
                             /\ UNCHANGED <<inputVars, setupVars, opened, chunk_header, headers,
                                            request, loop_count, af_size, npull>>
                        ELSE /\ pos' = LineEnd(file, pos)
                             /\ UNCHANGED <<inputVars, setupVars, opened, pc, pulling,
                                            chunk_header, headers, request, loop_count,
                                            af_size, out, nrec, npull, result>>
                   ELSE /\ pos' = LineEnd(file, pos)
                        /\ request' = request \o line
                        /\ UNCHANGED <<inputVars, setupVars, opened, pc, pulling, chunk_header,
                                       headers, loop_count, af_size, out, nrec, npull,
                                       result>>

\* after the yield: request = ""
SlowLog_Resume ==
    /\ kind = "slowlog" /\ pulling /\ pc = "yielded"
    /\ request' = <<>>
    /\ pc' = "for"
    /\ UNCHANGED <<inputVars, setupVars, opened, pos, pulling, chunk_header, headers,
                   loop_count, af_position, af_size, out, nrec, npull, result>>

(***************************************************************************)
(* LineReader.__iter__                                                     *)
(***************************************************************************)
Line_Open ==
    /\ kind = "line" /\ pulling /\ pc = "start"
    /\ opened' = "open"
    /\ pc' = "for"
    /\ UNCHANGED <<inputVars, setupVars, pos, pulling, chunk_header, headers, request,
                   loop_count, af_position, af_size, out, nrec, npull, result>>

Line_For(wrap) ==
    /\ kind = "line" /\ pulling /\ pc = "for"
    /\ LET line == readline(file, pos)
       IN  IF line = <<>> THEN StartOver(wrap)
           ELSE /\ af_position' \in TellInLoop(file, LineEnd(file, pos))
                /\ Yield(<<rstrip(line, {"\r", "\n"}), None>>, LineEnd(file, pos))
                /\ UNCHANGED <<inputVars, setupVars, opened, chunk_header, headers, request,
                               loop_count, af_size, npull>>

\* after the yield the for loop goes on
Line_Resume ==
    /\ kind = "line" /\ pulling /\ pc = "yielded"
    /\ pc' = "for"
    /\ UNCHANGED <<inputVars, setupVars, opened, pos, pulling, chunk_header, headers, request,
                   loop_count, af_position, af_size, out, nrec, npull, result>>

(***************************************************************************)
(* UriReader.__iter__                                                      *)
(***************************************************************************)
\* self.headers set back to the configured headers at the end of the file
Uri_headers_at_eof_reset(hs) == cfg_headers

\* the for loop is exhausted: self.headers is not touched
Uri_headers_at_eof(hs) == hs

\* the headers a request for a URI line is built with
Uri_request_headers(hs) == hs

Uri_Open ==
    /\ kind = "uri" /\ pulling /\ pc = "start"
    /\ opened' = "open"
    /\ pc' = "for"
    /\ UNCHANGED <<inputVars, setupVars, pos, pulling, chunk_header, headers, request,
                   loop_count, af_position, af_size, out, nrec, npull, result>>

Uri_For(wrap) ==
    /\ kind = "uri" /\ pulling /\ pc = "for"
    /\ LET line == readline(file, pos)
       IN  IF line = <<>>
           THEN /\ CanRestart(wrap)
                /\ pos' = 0
                /\ af_position' = 0
                /\ loop_count' = Restarted(wrap)
                /\ headers' = Uri_headers_at_eof(headers)
                /\ UNCHANGED <<inputVars, setupVars, opened, pc, pulling, chunk_header, request,
                               af_size, out, nrec, npull, result>>
           ELSE /\ af_position' \in TellInLoop(file, LineEnd(file, pos))
                /\ IF startswith(line, "[")
                   THEN /\ headers' = headers \cup {strip(line, {"\r", "\n", "[", "]", "\t", " "})}
                        /\ pos' = LineEnd(file, pos)
                        /\ UNCHANGED <<inputVars, setupVars, opened, pc, pulling, chunk_header,
                                       request, loop_count, af_size, out, nrec, npull,
                                       result>>
                   ELSE IF Len(rstrip(line, {"\r", "\n"})) # 0
                   THEN /\ Yield(<<to_s(HttpAmmo(rstrip(line, {"\r", "\n"}),
                                                 Uri_request_headers(headers), GET,
                                                 HttpVer, <<>>)), None>>,
                                 LineEnd(file, pos))
                        /\ headers' = caller_headers(headers, <<>>)
                        /\ UNCHANGED <<inputVars, setupVars, opened, chunk_header,
                                       request, loop_count, af_size, npull>>
                   ELSE /\ pos' = LineEnd(file, pos)
                        /\ UNCHANGED <<inputVars, setupVars, opened, pc, pulling, chunk_header,
                                       headers, request, loop_count, af_size, out,
                                       nrec, npull, result>>

Uri_Resume ==
    /\ kind = "uri" /\ pulling /\ pc = "yielded"
    /\ pc' = "for"
    /\ UNCHANGED <<inputVars, setupVars, opened, pos, pulling, chunk_header, headers, request,
                   loop_count, af_position, af_size, out, nrec, npull, result>>

(***************************************************************************)
(* Specifications.                                                         *)
(***************************************************************************)
Next ==
    \/ Pull
    \/ PullFinished
    \/ Abandon
    \/ AFR_Open
    \/ AFR_Loop(FALSE)
    \/ AFR_Resume(FALSE)
    \/ UPR_Open
    \/ UPR_Loop(FALSE)
    \/ UPR_Resume(FALSE)
    \/ SlowLog_Open
    \/ SlowLog_For(FALSE)
    \/ SlowLog_Resume
    \/ Line_Open
    \/ Line_For(FALSE)
    \/ Line_Resume
    \/ Uri_Open
    \/ Uri_For(FALSE)
    \/ Uri_Resume

Spec == Init /\ [][Next]_vars

\* Once pulled, a generator runs until it yields, raises or returns: its
\* steps are taken as long as one is possible.  The consumer may stop
\* pulling.  The loop counter is kept modulo MaxLoops + 1, so that a reader
\* that starts over for ever is followed for ever; the slow-log reader, whose
\* pending request then grows without bound, is left out.
ReaderStep ==
    \/ AFR_Open
    \/ AFR_Loop(TRUE)
    \/ AFR_Resume(TRUE)
    \/ UPR_Open
    \/ UPR_Loop(TRUE)
    \/ UPR_Resume(TRUE)
    \/ Line_Open
    \/ Line_For(TRUE)
    \/ Line_Resume
    \/ Uri_Open
    \/ Uri_For(TRUE)
    \/ Uri_Resume

LiveInit == Init /\ kind # "slowlog" /\ Len(pieces) <= MaxLivePieces

LiveNext == Pull \/ PullFinished \/ ReaderStep

LiveSpec == LiveInit /\ [][LiveNext]_vars /\ WF_vars(ReaderStep)

(***************************************************************************)
(* HttpAmmo on its own: the caller passes any method, URI, headers and     *)
(* body.                                                                   *)
(***************************************************************************)
\* 'A: b'
HeaderA == <<"A", ":", " ", "b">>

\* headers a caller may pass: one that is no Content-Length, and two
\* Content-Length entries
HttpHeaders == {HeaderA, ContentLengthPrefix \o <<"1">>, ContentLengthPrefix \o <<"9">>}

HttpBodies == SeqsUpTo({"h", "i"}, MaxBody)

HttpUris == {<<"/">>, <<"/", "a">>}

HttpInit ==
    /\ kind = "http"
    /\ pieces = <<>>
    /\ file = <<>>
    /\ headers = {}
    /\ cfg_headers = {}
    /\ args = <<>>
    /\ opened = "no"
    /\ pos = 0
    /\ pc = "start"
    /\ pulling = FALSE
    /\ chunk_header = <<>>
    /\ request = <<>>
    /\ loop_count = 0
    /\ af_position = 0
    /\ af_size = 0
    /\ out = <<>>
    /\ nrec = 0
    /\ npull = 0
    /\ result = "none"
    /\ ammo_count = 0
    /\ status = <<>>
    /\ factory = <<>>

\* HttpAmmo(uri, headers, method=method, body=body)
HttpBuild ==
    /\ kind = "http"
    /\ \E uri \in HttpUris, hdrs \in SUBSET HttpHeaders, method \in {GET, POST},
          body \in HttpBodies :
          /\ args' = [uri |-> uri, headers |-> hdrs, method |-> method, body |-> body]
          /\ out' = HttpAmmo(uri, hdrs, method, HttpVer, body)
    /\ result' = "built"
    /\ UNCHANGED <<kind, pieces, file, cfg_headers, opened, pos, pc, pulling,
                   chunk_header, headers, request, loop_count, af_position, af_size,
                   nrec, npull, setupVars>>

HttpSpec == HttpInit /\ [][HttpBuild]_vars

(***************************************************************************)
(* AmmoFileReader and UriPostReader over the same files: chunks with       *)
(* headers '<len> <uri> [marker]', no bracket lines.                       *)
(***************************************************************************)
\* chunks, a zero-length sentinel, a blank line, a length larger than the
\* payload that follows
ProtocolPieces ==
    PostChunkPieces \cup {<<"0", "\n">>, <<"\n">>, <<"3", " ", "/", "c", "\n", "A">>}

ProtocolInit ==
    /\ kind \in {"phantom", "uripost"}
    /\ pieces \in SeqsUpTo(ProtocolPieces, MaxPieces)
    /\ file = Flatten(pieces)
    /\ opened = "no"
    /\ pos = 0
    /\ pc = "start"
    /\ pulling = FALSE
    /\ chunk_header = <<>>
    /\ headers \in (IF kind = "uripost" THEN ConfiguredHeaders ELSE {{}})
    /\ cfg_headers = headers
    /\ args = <<>>
    /\ request = <<>>
    /\ loop_count = 0
    /\ af_position = 0
    /\ af_size = 0
    /\ out = <<>>
    /\ nrec = 0
    /\ npull = 0
    /\ result = "none"
    /\ ammo_count = 0
    /\ status = <<>>
    /\ factory = <<>>

ProtocolNext ==
    \/ Pull
    \/ PullFinished
    \/ AFR_Open
    \/ AFR_Loop(FALSE)
    \/ AFR_Resume(FALSE)
    \/ UPR_Open
    \/ UPR_Loop(FALSE)
    \/ UPR_Resume(FALSE)

ProtocolSpec == ProtocolInit /\ [][ProtocolNext]_vars

(***************************************************************************)
(* UriStyleGenerator.                                                      *)
(***************************************************************************)
\* the list cycle() is given: one rendered GET request per URI, no marker
missiles(uris, hdrs) ==
    [i \in 1..Len(uris) |-> <<to_s(HttpAmmo(uris[i], hdrs, GET, HttpVer, <<>>)), None>>]

\* ammo_count / uri_count on two Python 2 integers: the floor of the quotient
int_div(a, b) == a \div b

StyleInit ==
    /\ kind = "uristyle"
    /\ args \in [uris : SeqsUpTo(HttpUris, MaxUris), headers : ConfiguredHeaders]
    /\ pieces = <<>>
    /\ file = <<>>
    /\ headers = {}
    /\ cfg_headers = {}
    /\ opened = "no"
    /\ pos = 0
    /\ pc = "start"
    /\ pulling = FALSE
    /\ chunk_header = <<>>
    /\ request = <<>>
    /\ loop_count = 0
    /\ af_position = 0
    /\ af_size = 0
    /\ out = <<>>
    /\ nrec = 0
    /\ npull = 0
    /\ result = "none"
    /\ ammo_count = 0
    /\ status = <<>>
    /\ factory = <<>>

\* the consumer counts a record it was given: info.status.ammo_count
Count ==
    /\ kind = "uristyle"
    /\ ~pulling
    /\ ammo_count < nrec
    /\ ammo_count' = ammo_count + 1
    /\ UNCHANGED <<inputVars, status, factory, opened, pos, pc, pulling, chunk_header,
                   headers, request, loop_count, af_position, af_size, out, nrec, npull,
                   result>>

\* 'for m in self.missiles: yield m'; pos counts the items taken from the
\* cycle, and the cycle of an empty list is exhausted at once
UriStyle_For ==
    /\ kind = "uristyle" /\ pulling /\ pc \in {"start", "for"}
    /\ IF Len(args.uris) = 0
       THEN /\ pc' = "done"
            /\ result' = "StopIteration"
            /\ pulling' = FALSE
            /\ UNCHANGED <<pos, out, nrec>>
       ELSE Yield(missiles(args.uris, args.headers)[(pos % Len(args.uris)) + 1], pos + 1)
    /\ UNCHANGED <<inputVars, setupVars, opened, chunk_header, headers, request,
                   loop_count, af_position, af_size, npull>>

\* after the yield: info.status.loop_count = info.status.ammo_count / self.uri_count
UriStyle_Resume ==
    /\ kind = "uristyle" /\ pulling /\ pc = "yielded"
    /\ loop_count' = int_div(ammo_count, Len(args.uris))
    /\ pc' = "for"
    /\ UNCHANGED <<inputVars, setupVars, opened, pos, pulling, chunk_header, headers,
                   request, af_position, af_size, out, nrec, npull, result>>

StyleNext == Pull \/ PullFinished \/ Count \/ UriStyle_For \/ UriStyle_Resume

StyleSpec == StyleInit /\ [][StyleNext]_vars

(***************************************************************************)
(* ComponentFactory (config.py).  An optional argument is None or a value; *)
(* an integer n is written <<n>>, so that None, <<>>, differs from every   *)
(* integer.  A schedule is known by whether it is None, an empty list or a *)
(* list of steps.                                                          *)
(***************************************************************************)
\* instances=1000
DefaultInstances == 1000

\* the values of rps_schedule and instances_schedule
Schedules == {"None", "[]", "[steps]"}

\* the truth value of a schedule in 'if' and 'not'
ScheduleGiven(s) == s = "[steps]"

\* the values of loop_limit and ammo_limit: None (the default), or an integer
Limits == {None} \cup {<<n>> : n \in (0 - 1)..MaxLimit}

\* the uris argument: None or an empty list (both <<>>), or a list of URIs
FactoryUris == {[i \in 1..k |-> IF i % 2 = 1 THEN <<"/">> ELSE <<"/", "a">>] : k \in 0..MaxUris}

\* the path of the ammo file
AmmoPath == <<"a", "m", "m", "o">>

\* the headers argument: None (the default), or a list
FactoryHeaders ==
    {[given |-> FALSE, list |-> {}], [given |-> TRUE, list |-> {}],
     [given |-> TRUE, list |-> {<<"K", ":", " ", "v">>}]}

\* the values of ammo_type: the keys of af_readers and one that is no key.
\* literal tells whether the string object is the literal 'phantom' itself,
\* as the default is; a string built at run time (read from a configuration
\* file) equals 'phantom' without being that object
AmmoTypes ==
    {[name |-> k, literal |-> FALSE] : k \in Kinds \cup {"other"}}
        \cup {[name |-> "phantom", literal |-> TRUE]}

\* the ammo file the factory is pointed at: empty, a chunk, a URI line, an
\* empty line
FactoryFiles == {<<>>, <<"1", "\n", "A">>, LineFoo, <<"\n">>}

\* int(loop_limit) raises TypeError on None
int_fails(limit) == limit = None

\* int(limit), then -1 means infinite
resolve_limit(limit) == IF limit = <<0 - 1>> THEN None ELSE limit

\* one loop when no limit and no rps schedule is given
default_loop_limit(loop_limit, ammo_limit, rps_schedule) ==
    IF loop_limit = None /\ ammo_limit = None /\ ~ScheduleGiven(rps_schedule)
    THEN <<1>> ELSE loop_limit

\* the ammo limit left as configured whatever the uris
uris_ammo_limit_kept(uris, loop_limit, ammo_limit) == ammo_limit

\* if self.uris and loop_limit: ammo_limit = len(self.uris) * loop_limit
uris_ammo_limit(uris, loop_limit, ammo_limit) ==
    IF uris # <<>> /\ loop_limit # None /\ loop_limit # <<0>>
    THEN <<Len(uris) * loop_limit[1]>> ELSE ammo_limit

FactoryInit ==
    /\ kind = "factory"
    /\ file \in FactoryFiles
    /\ pieces = <<file>>
    /\ headers = {}
    /\ cfg_headers = {}
    /\ args = <<>>
    /\ opened = "no"
    /\ pos = 0
    /\ pc = "start"
    /\ pulling = FALSE
    /\ chunk_header = <<>>
    /\ request = <<>>
    /\ loop_count = 0
    /\ af_position = 0
    /\ af_size = 0
    /\ out = <<>>
    /\ nrec = 0
    /\ npull = 0
    /\ result = "none"
    /\ ammo_count = 0
    /\ status = <<>>
    /\ factory = <<>>

\* what no method of the factory touches
readerVars == <<kind, pieces, file, cfg_headers, pos, pulling, chunk_header, headers,
                request, loop_count, af_position, af_size, nrec, npull, ammo_count>>

\* ComponentFactory.__init__
ComponentFactory_init ==
    /\ kind = "factory" /\ pc = "start"
    /\ \E rps_schedule \in Schedules, instances_schedule \in Schedules,
          loop_limit \in Limits, ammo_limit \in Limits, uris \in FactoryUris,
          hdrs \in FactoryHeaders, ammo_file \in {None, AmmoPath},
          ammo_type \in AmmoTypes :
          /\ args' = [rps_schedule |-> rps_schedule,
                      instances_schedule |-> instances_schedule,
                      loop_limit |-> loop_limit, ammo_limit |-> ammo_limit,
                      uris |-> uris, headers |-> hdrs, ammo_file |-> ammo_file,
                      ammo_type |-> ammo_type]
          /\ IF int_fails(loop_limit) \/ int_fails(ammo_limit)
             THEN /\ pc' = "failed"
                  /\ result' = "TypeError"
                  /\ UNCHANGED <<status, factory>>
             ELSE LET loop == default_loop_limit(resolve_limit(loop_limit),
                                                 resolve_limit(ammo_limit), rps_schedule)
                  IN  /\ pc' = "constructed"
                      /\ result' = "constructed"
                      /\ status' = [loop_limit |-> loop,
                                    ammo_limit |-> uris_ammo_limit(uris, loop,
                                                       resolve_limit(ammo_limit)),
                                    instances |-> DefaultInstances,
                                    loadscheme |-> "unset"]
                      /\ factory' = [ammo_file |-> ammo_file, ammo_type |-> ammo_type,
                                     rps_schedule |-> rps_schedule,
                                     instances_schedule |-> instances_schedule,
                                     uris |-> uris, headers |-> hdrs]
    /\ UNCHANGED <<readerVars, opened, out>>

\* 'if self.rps_schedule and self.instances_schedule' left out
both_schedules_never(rps_schedule, instances_schedule) == FALSE

\* self.rps_schedule and self.instances_schedule
both_schedules(rps_schedule, instances_schedule) ==
    ScheduleGiven(rps_schedule) /\ ScheduleGiven(instances_schedule)

\* ComponentFactory.get_load_plan
get_load_plan ==
    /\ kind = "factory" /\ pc = "constructed"
    /\ IF both_schedules(factory.rps_schedule, factory.instances_schedule)
       THEN /\ result' = "StepperConfigurationError"
            /\ out' = None
            /\ UNCHANGED <<status, factory>>
       ELSE IF ScheduleGiven(factory.rps_schedule)
       THEN /\ status' = [status EXCEPT !.loadscheme = factory.rps_schedule]
            /\ out' = [engine |-> "load_plan", schedule |-> factory.rps_schedule]
            /\ result' = "plan"
            /\ UNCHANGED factory
       ELSE IF ScheduleGiven(factory.instances_schedule)
       THEN /\ status' = [status EXCEPT !.loadscheme = factory.instances_schedule]
            /\ out' = [engine |-> "instance_plan", schedule |-> factory.instances_schedule]
            /\ result' = "plan"
            /\ UNCHANGED factory
       ELSE /\ factory' = [factory EXCEPT !.instances_schedule = "[]"]
            /\ status' = [status EXCEPT !.loadscheme = "[]"]
            /\ out' = [engine |-> "instance_plan", schedule |-> "[]"]
            /\ result' = "plan"
    /\ UNCHANGED <<readerVars, args, opened, pc>>

\* af_readers
af_readers ==
    [k \in Kinds |->
        CASE k = "phantom" -> "AmmoFileReader"
          [] k = "slowlog" -> "SlowLogReader"
          [] k = "line" -> "LineReader"
          [] k = "uri" -> "UriReader"
          [] k = "uripost" -> "UriPostReader"]

\* 'if self.uris and self.ammo_file' left out
both_sources_never(uris, ammo_file) == FALSE

\* self.uris and self.ammo_file
both_sources(uris, ammo_file) == uris # <<>> /\ ammo_file # None

\* self.ammo_type is 'phantom': the identity of two string objects
is_phantom(ammo_type) == ammo_type.name = "phantom" /\ ammo_type.literal

\* the classes whose __init__ runs set(headers), which raises TypeError on
\* None: UriReader, UriPostReader, and HttpAmmo for UriStyleGenerator
takes_headers(class) == class \in {"UriReader", "UriPostReader", "UriStyleGenerator"}

\* the call of a reader class or of UriStyleGenerator, and the return
construct(class, hdrs) ==
    IF takes_headers(class) /\ ~hdrs.given
    THEN /\ result' = "TypeError"
         /\ out' = None
    ELSE /\ result' = "generator"
         /\ out' = [class |-> class,
                    headers |-> IF takes_headers(class) THEN hdrs.list ELSE {}]

\* ComponentFactory.get_ammo_generator
get_ammo_generator ==
    /\ kind = "factory" /\ pc = "constructed"
    /\ IF both_sources(factory.uris, factory.ammo_file)
       THEN /\ result' = "StepperConfigurationError"
            /\ out' = None
            /\ UNCHANGED <<factory, opened>>
       ELSE IF factory.uris # <<>>
       THEN /\ construct("UriStyleGenerator", factory.headers)
            /\ UNCHANGED <<factory, opened>>
       ELSE IF factory.ammo_file # None
       THEN IF factory.ammo_type.name \notin Kinds
            THEN /\ result' = "NotImplementedError"
                 /\ out' = None
                 /\ UNCHANGED <<factory, opened>>
            ELSE IF ~is_phantom(factory.ammo_type)
            THEN /\ construct(af_readers[factory.ammo_type.name], factory.headers)
                 /\ UNCHANGED <<factory, opened>>
            ELSE IF readline(file, 0) = <<>>
            THEN /\ result' = "StopIteration"
                 /\ out' = None
                 /\ opened' = "closed"
                 /\ UNCHANGED factory
            ELSE IF readline(file, 0)[1] \notin Digits
            THEN /\ factory' = [factory EXCEPT
                                   !.ammo_type = [name |-> "uri", literal |-> FALSE]]
                 /\ opened' = "closed"
                 /\ construct(af_readers["uri"], factory.headers)
            ELSE /\ opened' = "closed"
                 /\ construct(af_readers["phantom"], factory.headers)
                 /\ UNCHANGED factory
       ELSE /\ result' = "StepperConfigurationError"
            /\ out' = None
            /\ UNCHANGED <<factory, opened>>
    /\ UNCHANGED <<readerVars, args, status, pc>>

FactoryNext == ComponentFactory_init \/ get_load_plan \/ get_ammo_generator

FactorySpec == FactoryInit /\ [][FactoryNext]_vars

(***************************************************************************)
(* Properties.                                                             *)
(***************************************************************************)
\* the file is a sequence of k >= 1 well-formed chunks and nothing else
ValidChunkFile == Len(pieces) >= 1 /\ \A i \in 1..Len(pieces) : pieces[i] \in ChunkPieces

\* the chunk a well-formed piece was written from
ChunkOf(piece) == CHOOSE c \in Chunks : Encode(c) = piece

\* bytes of the first n pieces: their header lines and their payloads
BytesOf(n) == Len(Flatten(SubSeq(pieces, 1, n)))

\* the offsets at which a line of the file starts
LineStarts(f) == {p \in 0..(Len(f) - 1) : p = 0 \/ f[p] = "\n"}

\* the lines of the file that are not blank, by their offsets
HeaderLines(f) == {p \in LineStarts(f) : strip(readline(f, p), {"\r", "\n"}) # <<>>}

\* the offset of the first line of the file that is not blank
FirstHeaderAt(f) == CHOOSE p \in HeaderLines(f) : \A q \in HeaderLines(f) : p <= q

\* C1: when the N-th record of the first pass over a valid chunk file has
\* been delivered, af_position is the number of bytes consumed so far: the
\* first N header lines and the first N payloads.
C1_PositionAfterRecord ==
    (kind = "phantom" /\ ValidChunkFile /\ pc = "yielded" /\ loop_count = 0)
        => af_position = BytesOf(nrec)

\* C2: over a valid file of k chunks without a sentinel, the i-th record
\* delivered is chunk ((i-1) mod k)+1 and loop_count then is (i-1) div k;
\* reaching the end of the file moves to the first header again and
\* increments loop_count by exactly one.
C2_ExactReplay ==
    /\ [](kind = "phantom" /\ ValidChunkFile /\ pc = "yielded"
            => LET k == Len(pieces)
                   c == ChunkOf(pieces[((nrec - 1) % k) + 1])
               IN  /\ out = <<c.payload, c.marker>>
                   /\ loop_count = (nrec - 1) \div k)
    /\ [][kind = "phantom" /\ ValidChunkFile /\ pc = "yielded" /\ pulling
              /\ pos = Len(file)
            => /\ loop_count' = loop_count + 1
               /\ pos' = LineEnd(file, 0)
               /\ chunk_header' = strip(readline(file, 0), {"\r", "\n"})
               /\ nrec' = nrec]_vars

\* a two-chunk file has been replayed: its second pass is complete
C2_Witness ==
    /\ kind = "phantom" /\ ValidChunkFile /\ Len(pieces) = 2
    /\ pieces[1] # pieces[2]
    /\ pc = "yielded" /\ nrec = 4 /\ loop_count = 1

\* the header just read has chunk size 0
ZeroHeader ==
    /\ chunk_header # <<>>
    /\ Len(split(chunk_header)) > 0
    /\ ~IntFails(split(chunk_header)[1])
    /\ int(split(chunk_header)[1]) = 0

\* C3: a header of chunk size 0, wherever it stands, makes the reader start
\* over: loop_count goes up by exactly one, no record is delivered, no body
\* byte is read, and the next header parsed is the first header of the file.
C3_SentinelRestarts ==
    [][kind = "phantom" /\ pulling /\ pc = "while" /\ ZeroHeader
         => /\ loop_count' = loop_count + 1
            /\ nrec' = nrec /\ out' = out /\ pc' = "while" /\ pulling'
            /\ chunk_header' = strip(readline(file, FirstHeaderAt(file)), {"\r", "\n"})
            /\ pos' = LineEnd(file, FirstHeaderAt(file))]_vars

\* a sentinel between two chunks has sent the reader back to the first one
C3_Witness ==
    /\ kind = "phantom" /\ Len(pieces) = 3
    /\ pieces[1] \in ChunkPieces /\ pieces[2] = <<"0", "\n">> /\ pieces[3] \in ChunkPieces
    /\ pieces[1] # pieces[3]
    /\ loop_count = 1 /\ nrec = 2 /\ pc = "yielded"
    /\ out = <<ChunkOf(pieces[1]).payload, ChunkOf(pieces[1]).marker>>

\* the header just read declares more bytes than the file has left
TruncatedHeader ==
    /\ chunk_header # <<>>
    /\ Len(split(chunk_header)) > 0
    /\ ~IntFails(split(chunk_header)[1])
    /\ int(split(chunk_header)[1]) > Len(file) - pos

\* C4: a chunk header that declares more bytes than the file has left makes
\* the pull fail with AmmoFileError, with no record delivered and loop_count
\* unchanged, and no later pull delivers a record.
C4_TruncatedChunkAborts ==
    /\ [][pulling /\ kind \in {"phantom", "uripost"} /\ pc = "while" /\ TruncatedHeader
            => /\ pc' = "failed" /\ result' = "AmmoFileError" /\ ~pulling'
               /\ nrec' = nrec /\ out' = out /\ loop_count' = loop_count]_vars
    /\ [][pc = "failed" => pc' = "failed" /\ nrec' = nrec /\ out' = out /\ ~pulling']_vars

\* a truncated second chunk has failed the second pull, and a third pull has
\* been made since
C4_Witness ==
    /\ kind = "phantom" /\ Len(pieces) = 2
    /\ pieces[1] \in ChunkPieces /\ pieces[2] = <<"3", "\n", "A">>
    /\ pc = "failed" /\ nrec = 1 /\ npull = 3 /\ result = "StopIteration"

\* C5: every delivered record comes from a header whose field 0 is an
\* integer >= 1, and its payload has that many bytes.
C5_RecordsHaveDeclaredSize ==
    (kind = "phantom" /\ pc = "yielded")
        => /\ Len(split(chunk_header)) > 0
           /\ ~IntFails(split(chunk_header)[1])
           /\ int(split(chunk_header)[1]) >= 1
           /\ Len(out[1]) = int(split(chunk_header)[1])

\* the file is written from well-formed chunks, sentinels and blank lines
\* only: it has no malformed header and no truncated chunk
WellFormedFile ==
    \A i \in 1..Len(pieces) : pieces[i] \in ChunkPieces \cup {<<"0", "\n">>, <<"\r", "\n">>}

\* C6 as stated: over a file without malformed header or truncated chunk,
\* the empty file and a file of blank lines included, the iteration never
\* ends normally.
C6_NeverEnds == (kind = "phantom" /\ WellFormedFile) => pc # "done"

\* C6 as amended: the iteration ends normally exactly when the file has no
\* header line (it is empty or holds blank lines only), and then on the
\* first pull, with no record and no restart; over any other file it never
\* ends normally.
C6_EndsOnlyWithoutHeader ==
    kind = "phantom"
        => /\ pc = "done" <=> (HeaderLines(file) = {} /\ npull >= 1 /\ ~pulling)
           /\ pc = "done" => (nrec = 0 /\ loop_count = 0 /\ result = "StopIteration")

\* a file of two blank lines has ended the iteration
C6_Witness ==
    /\ kind = "phantom" /\ pieces = <<<<"\r", "\n">>, <<"\r", "\n">>>>
    /\ pc = "done" /\ npull = 1 /\ opened = "closed"

\* C7: every pull completes: it delivers a record, raises or ends the
\* sequence.
C7_PullCompletes == pulling ~> ~pulling

\* offsets of the comment lines of a slow log
CommentLines(f) == {p \in LineStarts(f) : f[p + 1] = "#"}

\* the lines after the last comment line
TailOf(f) ==
    LET last == CHOOSE p \in CommentLines(f) : \A q \in CommentLines(f) : q <= p
    IN  SubSeq(f, LineEnd(f, last) + 1, Len(f))

\* the lines before the first comment line
HeadOf(f) ==
    LET first == CHOOSE p \in CommentLines(f) : \A q \in CommentLines(f) : p <= q
    IN  SubSeq(f, 1, first)

\* the offset after the first comment line
AfterFirstComment(f) ==
    LineEnd(f, CHOOSE p \in CommentLines(f) : \A q \in CommentLines(f) : p <= q)

BracketLines(f) == {p \in LineStarts(f) : f[p + 1] = "["}

\* the offset at which the line that ends at offset e starts
LineStartBefore(f, e) ==
    CHOOSE p \in LineStarts(f) : p < e /\ \A q \in LineStarts(f) : q < e => q <= p

\* the GET request for a URI with the header set hs, rendered
RenderedGet(uri, hs) ==
    [line |-> <<"G", "E", "T", " ">> \o uri
                 \o <<" ", "H", "T", "T", "P", "/", "1", ".", "1", "\r", "\n">>,
     headers |-> {h \o <<"\r", "\n">> : h \in hs},
     tail |-> <<"\r", "\n">>]

\* '[X: 1]\nfoo\n[Y: 2]\nbar\n'
ExampleUriFile == <<BracketX, LineFoo, BracketY, LineBar>>

\* C9: UriReader delivers each non-bracket non-empty line as a GET request
\* with the header set accumulated when the line is read, never delivers a
\* bracket line, and keeps the accumulated set across restarts; over
\* '[X: 1]\nfoo\n[Y: 2]\nbar\n' the records are foo, bar, foo, ... with one
\* loop_count increment per pass, and from the second record on every record
\* carries both 'X: 1' and 'Y: 2'.
C9_UriReader ==
    /\ (kind = "uri" /\ pc = "yielded")
         => LET line == readline(file, LineStartBefore(file, pos))
            IN  /\ line[1] # "["
                /\ rstrip(line, {"\r", "\n"}) # <<>>
                /\ out = <<RenderedGet(rstrip(line, {"\r", "\n"}), headers), None>>
    /\ kind = "uri"
         => headers = cfg_headers \cup
                {strip(readline(file, p), {"\r", "\n", "[", "]", "\t", " "}) :
                    p \in {q \in BracketLines(file) : loop_count >= 1 \/ q < pos}}
    /\ (kind = "uri" /\ pieces = ExampleUriFile /\ pc = "yielded")
         => /\ out[1].line = <<"G", "E", "T", " ">>
                  \o (IF nrec % 2 = 1 THEN <<"f", "o", "o">> ELSE <<"b", "a", "r">>)
                  \o <<" ", "H", "T", "T", "P", "/", "1", ".", "1", "\r", "\n">>
            /\ loop_count = (nrec - 1) \div 2
            /\ out[1].headers =
                  {h \o <<"\r", "\n">> : h \in cfg_headers}
                  \cup {<<"X", ":", " ", "1", "\r", "\n">>}
                  \cup (IF nrec >= 2 THEN {<<"Y", ":", " ", "2", "\r", "\n">>} ELSE {})

\* the third record of the example: foo again, after one restart, with both
\* headers
C9_Witness ==
    /\ kind = "uri" /\ pieces = ExampleUriFile /\ cfg_headers = {}
    /\ pc = "yielded" /\ nrec = 3 /\ loop_count = 1
    /\ out[1].headers = {<<"X", ":", " ", "1", "\r", "\n">>, <<"Y", ":", " ", "2", "\r", "\n">>}

\* h is a Content-Length header
IsContentLength(h) == Len(h) >= 15 /\ SubSeq(h, 1, 15) = SubSeq(ContentLengthPrefix, 1, 15)

\* C10: a request built with a non-empty body has exactly one Content-Length
\* header, whose value is the body length, also when the headers passed in
\* hold a Content-Length entry; with an empty body none is added.
C10_OneContentLength ==
    (kind = "http" /\ result = "built")
        => IF args.body # <<>>
           THEN /\ Cardinality({h \in out.headers : IsContentLength(h)}) = 1
                /\ ContentLengthPrefix \o Dec(Len(args.body)) \in out.headers
           ELSE out.headers = args.headers

\* C11: get_ammo_generator raises StepperConfigurationError when uris and
\* ammo_file are both set and when neither is set, whatever the ammo_type,
\* with no file opened and no generator returned; with exactly one of them
\* set it raises no configuration error.
C11_SourceSelection ==
    [][get_ammo_generator
         => LET both == factory.uris # <<>> /\ factory.ammo_file = AmmoPath
                neither == factory.uris = <<>> /\ factory.ammo_file = None
            IN  IF both \/ neither
                THEN /\ result' = "StepperConfigurationError"
                     /\ out' = None
                     /\ opened = "no" /\ opened' = "no"
                ELSE result' # "StepperConfigurationError"]_vars

\* both sources set, with an ammo_type that is no registered format and a
\* file that would end the sniff: the configuration error has been raised
C11_Witness ==
    /\ kind = "factory" /\ pc = "constructed"
    /\ Len(factory.uris) = 2 /\ factory.ammo_file = AmmoPath
    /\ factory.ammo_type.name = "other" /\ file = <<>>
    /\ factory.rps_schedule = "None" /\ factory.instances_schedule = "None"
    /\ result = "StepperConfigurationError" /\ opened = "no"

\* C12: get_load_plan raises StepperConfigurationError when both schedules
\* are supplied, delegating to no engine and publishing no loadscheme; with
\* the rps schedule only it delegates to the rate engine, with the instances
\* schedule only to the instance engine, with neither to the instance engine
\* with an empty schedule.
C12_LoadPlanSelection ==
    [][get_load_plan
         => LET rps == factory.rps_schedule = "[steps]"
                inst == factory.instances_schedule = "[steps]"
            IN  /\ (rps /\ inst)
                     => /\ result' = "StepperConfigurationError"
                        /\ out' = None
                        /\ status' = status
                /\ (rps /\ ~inst)
                     => /\ out' = [engine |-> "load_plan", schedule |-> "[steps]"]
                        /\ status'.loadscheme = "[steps]"
                /\ (~rps /\ inst)
                     => /\ out' = [engine |-> "instance_plan", schedule |-> "[steps]"]
                        /\ status'.loadscheme = "[steps]"
                /\ (~rps /\ ~inst)
                     => /\ out' = [engine |-> "instance_plan", schedule |-> "[]"]
                        /\ status'.loadscheme = "[]"]_vars

\* both schedules supplied and a single ammo source: the configuration error
\* is get_load_plan's, and nothing has been published
C12_Witness ==
    /\ kind = "factory" /\ pc = "constructed"
    /\ factory.rps_schedule = "[steps]" /\ factory.instances_schedule = "[steps]"
    /\ factory.uris = <<>> /\ factory.ammo_file = AmmoPath
    /\ result = "StepperConfigurationError" /\ status.loadscheme = "unset"

\* loop_limit and ammo_limit are both left unset: at their default, or -1
NoExplicitLimit ==
    /\ args.loop_limit \in {None, <<0 - 1>>}
    /\ args.ammo_limit \in {None, <<0 - 1>>}

\* C13: a factory built with no schedule and no explicit limit, the options
\* at their defaults included, has status.loop_limit = 1; with a rate
\* schedule or an explicit limit the loop limit is the configured one, -1
\* published as None; an ammo_limit of -1 is published as None unless the
\* uris set it.
C13_LimitResolution ==
    (kind = "factory" /\ pc \in {"constructed", "failed"})
        => /\ (NoExplicitLimit /\ args.rps_schedule # "[steps]"
                  /\ args.instances_schedule # "[steps]")
                => (pc = "constructed" /\ status.loop_limit = <<1>>)
           /\ (pc = "constructed" /\ (args.rps_schedule = "[steps]" \/ ~NoExplicitLimit))
                => status.loop_limit =
                       (IF args.loop_limit = <<0 - 1>> THEN None ELSE args.loop_limit)
           /\ (pc = "constructed" /\ args.ammo_limit = <<0 - 1>>
                  /\ (args.uris = <<>> \/ status.loop_limit \in {None, <<0>>}))
                => status.ammo_limit = None

\* the first character of the first line of the file is a digit
FirstCharIsDigit == file # <<>> /\ file[1] \in Digits

\* C14: for a file source, an ammo_type that is no registered format fails
\* with NotImplementedError and no reader; ammo_type 'phantom' builds
\* AmmoFileReader if the first character of the file is a digit and
\* UriReader otherwise; any other registered type builds its registered
\* reader without opening the file.
C14_ReaderSelection ==
    [][(get_ammo_generator /\ factory.uris = <<>> /\ factory.ammo_file = AmmoPath
           /\ factory.headers.given)
         => LET type == factory.ammo_type.name
            IN  IF type \notin Kinds
                THEN result' = "NotImplementedError" /\ out' = None
                ELSE IF type = "phantom"
                THEN /\ result' = "generator"
                     /\ out'.class = IF FirstCharIsDigit THEN "AmmoFileReader"
                                     ELSE "UriReader"
                ELSE /\ result' = "generator"
                     /\ out'.class = af_readers[type]
                     /\ opened' = opened]_vars

\* C20: with a non-empty uris list and a resolved loop limit L >= 1, the
\* defaulted 1 included, status.ammo_limit is len(uris) * L whatever
\* ammo_limit was configured; with no uris, or a loop limit that is unbounded
\* or 0, it is the configured ammo_limit, -1 resolved to None.
C20_UrisAmmoLimit ==
    (kind = "factory" /\ pc = "constructed")
        => LET L == status.loop_limit
           IN  /\ (args.uris # <<>> /\ L # None /\ L # <<0>> /\ L[1] >= 1)
                    => status.ammo_limit = <<Len(args.uris) * L[1]>>
               /\ (args.uris = <<>> \/ L = None \/ L = <<0>>)
                    => status.ammo_limit =
                           (IF args.ammo_limit = <<0 - 1>> THEN None ELSE args.ammo_limit)

\* two uris, no limit and no schedule: the loop limit defaulted to 1 and the
\* ammo limit is 2
C20_Witness ==
    /\ kind = "factory" /\ pc = "constructed"
    /\ Len(args.uris) = 2 /\ args.loop_limit = <<0 - 1>> /\ args.ammo_limit = <<0 - 1>>
    /\ args.rps_schedule = "None"
    /\ status.loop_limit = <<1>> /\ status.ammo_limit = <<2>>

\* the first line at or after offset p that is not blank, as a header and
\* the offset after it; no header and the end of the file if there is none
NextHeaderFrom(f, p) ==
    LET from == {q \in p..(Len(f) - 1) :
                    /\ q = p \/ f[q] = "\n"
                    /\ strip(readline(f, q), {"\r", "\n"}) # <<>>}
        at == CHOOSE q \in from : \A r \in from : q <= r
    IN  IF from = {} THEN <<<<>>, Len(f)>>
        ELSE <<strip(readline(f, at), {"\r", "\n"}), LineEnd(f, at)>>

\* the chunk bytes of a delivered record: the payload of an AmmoFileReader
\* record, what follows the blank line of a UriPostReader request
BodyOf(k, rec) == IF k = "phantom" THEN rec[1] ELSE SubSeq(rec[1].tail, 3, Len(rec[1].tail))

\* the chunk size a header declares, -1 if its field 0 is no integer
DeclaredSize(header) ==
    IF Len(split(header)) = 0 \/ IntFails(split(header)[1]) THEN 0 - 1
    ELSE int(split(header)[1])

\* one step of the chunk protocol, told without naming the reader: where the
\* reader stands, what it has consumed, delivered and counted after the step
ChunkProtocolStep ==
    LET size == DeclaredSize(chunk_header)
        first == NextHeaderFrom(file, 0)
        next == NextHeaderFrom(file, pos)
    IN  CASE pc = "start" ->
               /\ opened' = "open" /\ af_size' = Len(file)
               /\ <<chunk_header', pos'>> = first
               /\ pc' = "while" /\ pulling'
               /\ UNCHANGED <<loop_count, af_position, nrec, result, out>>
          [] pc = "while" /\ chunk_header = <<>> ->
               /\ pc' = "done" /\ result' = "StopIteration" /\ ~pulling'
               /\ opened' = "closed"
               /\ UNCHANGED <<pos, loop_count, af_position, nrec, out>>
          [] pc = "while" /\ chunk_header # <<>> /\ size = 0 ->
               /\ loop_count' = loop_count + 1
               /\ <<chunk_header', pos'>> = first
               /\ pc' = "while" /\ pulling' /\ opened' = "open"
               /\ UNCHANGED <<af_position, nrec, result, out>>
          [] pc = "while" /\ chunk_header # <<>> /\ size < 0 ->
               /\ pc' = "failed" /\ result' = "AmmoFileError" /\ ~pulling'
               /\ opened' = "closed"
               /\ UNCHANGED <<pos, loop_count, af_position, nrec, out>>
          [] pc = "while" /\ chunk_header # <<>> /\ size > Len(file) - pos ->
               /\ pc' = "failed" /\ result' = "AmmoFileError" /\ ~pulling'
               /\ opened' = "closed" /\ pos' = Len(file)
               /\ UNCHANGED <<loop_count, af_position, nrec, out>>
          [] pc = "while" /\ chunk_header # <<>> /\ size > 0 /\ size <= Len(file) - pos ->
               /\ pc' = "yielded" /\ result' = "record" /\ ~pulling'
               /\ nrec' = nrec + 1 /\ pos' = pos + size
               /\ BodyOf(kind, out') = SubSeq(file, pos + 1, pos + size)
               /\ opened' = "open"
               /\ UNCHANGED <<chunk_header, loop_count, af_position>>
          [] pc = "yielded" ->
               /\ <<chunk_header', pos'>> = IF next[1] = <<>> THEN first ELSE next
               /\ loop_count' = IF next[1] = <<>> THEN loop_count + 1 ELSE loop_count
               /\ af_position' = pos'
               /\ pc' = "while" /\ pulling' /\ opened' = "open"
               /\ UNCHANGED <<nrec, result, out>>

\* C15: over a file of chunks '<len> <uri> [marker]' without bracket lines,
\* AmmoFileReader and UriPostReader take the same steps: each step of either
\* reader is the step of the one chunk protocol, which fixes the bytes
\* consumed, the record body delivered, the restarts at a sentinel and at the
\* end of the file, and the failures on truncated payloads.
C15_SameProtocol ==
    [][(pulling /\ kind \in {"phantom", "uripost"}) => ChunkProtocolStep]_vars

\* UriPostReader has delivered a chunk, met the sentinel that follows,
\* started over and delivered the chunk again
C15_Witness ==
    /\ kind = "uripost" /\ Len(pieces) = 3
    /\ pieces[1] \in PostChunkPieces /\ pieces[2] = <<"0", "\n">>
    /\ pieces[3] = <<"3", " ", "/", "c", "\n", "A">>
    /\ pc = "yielded" /\ nrec = 2 /\ loop_count = 1

\* the contents of the bracket lines the scan for a header meets between
\* offsets a and b
BracketsBetween(f, a, b) ==
    {strip(readline(f, q), {"\r", "\n", "[", "]", "\t", " "}) :
        q \in {r \in a..(b - 1) : (r = a \/ f[r] = "\n") /\ f[r + 1] = "["}}

\* the POST request for a URI with the header set hs and a body, rendered
RenderedPost(uri, hs, body) ==
    [line |-> <<"P", "O", "S", "T", " ">> \o uri
                 \o <<" ", "H", "T", "T", "P", "/", "1", ".", "1", "\r", "\n">>,
     headers |-> {h \o <<"\r", "\n">> :
                     h \in hs \cup {ContentLengthPrefix \o Dec(Len(body))}},
     tail |-> <<"\r", "\n">> \o body]

\* C16: in UriPostReader a bracket line met while scanning for a chunk
\* header is added to the accumulated headers and is never the chunk header;
\* a delivered record is the POST request for field 1 of its header, with
\* the chunk's bytes as body, field 2 as marker if present, and the headers
\* accumulated so far, kept across restarts, plus the body's Content-Length.
C16_UriPostRecords ==
    /\ [](kind = "uripost" => (chunk_header = <<>> \/ chunk_header[1] # "["))
    /\ [](kind = "uripost" /\ pc = "yielded"
            => LET fields == split(chunk_header)
                   size == int(fields[1])
               IN  /\ Len(fields) >= 2
                   /\ out[1] = RenderedPost(fields[2], headers,
                                            SubSeq(file, pos - size + 1, pos))
                   /\ out[2] = IF Len(fields) >= 3 THEN fields[3] ELSE None)
    /\ [][kind = "uripost" /\ pulling
            => CASE pc = "start" \/ (pc = "while" /\ pc' = "while") ->
                      headers' = headers \cup BracketsBetween(file, 0, pos')
                 [] pc = "yielded" /\ pos' > pos ->
                      headers' = headers \cup BracketsBetween(file, pos, pos')
                 [] pc = "yielded" /\ pos' <= pos ->
                      headers' = headers \cup BracketsBetween(file, pos, Len(file))
                                         \cup BracketsBetween(file, 0, pos')
                 [] OTHER -> headers' = headers]_vars

\* a chunk, then a bracket line, then the sentinel: after the restart the
\* chunk has been delivered again, now with the header of the bracket line
C16_Witness ==
    /\ kind = "uripost" /\ cfg_headers = {}
    /\ pieces = <<EncodePost([payload |-> <<"B", "C">>, uri |-> <<"/", "b">>,
                              marker |-> <<"m">>]), BracketH, <<"0", "\n">>>>
    /\ pc = "yielded" /\ nrec = 2 /\ loop_count = 1
    /\ out[2] = <<"m">>
    /\ out[1].headers = {<<"H", ":", " ", "1", "\r", "\n">>,
                         ContentLengthPrefix \o <<"2", "\r", "\n">>}

\* the text from each '[' of the file to the end of its line, stripped as
\* a bracket line is
BracketTexts(f) ==
    {strip(readline(f, q), {"\r", "\n", "[", "]", "\t", " "}) :
        q \in {r \in 0..(Len(f) - 1) : f[r + 1] = "["}}

\* C19: building a request never changes the accumulated header set of
\* UriReader and UriPostReader: the set only grows, holds nothing but the
\* configured headers and bracket lines of the file, never the
\* Content-Length added for a record, and a record carries the
\* Content-Length of its own body only.
C19_HeadersFrame ==
    /\ [](kind \in {"uri", "uripost"}
            => /\ headers \subseteq cfg_headers \cup BracketTexts(file)
               /\ \A h \in headers : ~IsContentLength(h))
    /\ [](kind = "uripost" /\ pc = "yielded"
            => {h \in out[1].headers : IsContentLength(h)}
                   = {ContentLengthPrefix \o Dec(Len(SubSeq(out[1].tail, 3, Len(out[1].tail))))
                          \o <<"\r", "\n">>})
    /\ [][(kind = "uri" \/ kind = "uripost")
            => /\ headers \subseteq headers'
               /\ (pc' = "yielded" /\ pc # "yielded") => headers' = headers]_vars

\* two chunks with bodies of different lengths: the second record has been
\* delivered with the Content-Length of its own body
C19_Witness ==
    /\ kind = "uripost" /\ Len(pieces) = 2
    /\ pieces[1] \in PostChunkPieces /\ pieces[2] \in PostChunkPieces
    /\ Len(pieces[1]) < Len(pieces[2])
    /\ pc = "yielded" /\ nrec = 2
    /\ ContentLengthPrefix \o <<"2", "\r", "\n">> \in out[1].headers

\* C17: the file of a reader is not open before the first pull, is open
\* while the sequence is being drawn, and is closed in every state after the
\* sequence has ended, has failed or has been abandoned; a handle once
\* closed is not opened again, so an iteration has at most one open handle.
C17_HandleLifecycle ==
    /\ [](kind \in Kinds
            => /\ (pc = "start" /\ ~pulling) => opened = "no"
               /\ pc \in {"while", "for", "yielded"} => opened = "open"
               /\ pc \in {"done", "failed", "abandoned"} => opened # "open")
    /\ [][(opened = "closed" => opened' = "closed")
             /\ (opened = "open" => opened' \in {"open", "closed"})]_vars

\* a chunk has been delivered and the consumer has then abandoned the
\* sequence: the file is closed
C17_Witness ==
    /\ kind = "phantom" /\ ValidChunkFile
    /\ pc = "abandoned" /\ nrec = 1 /\ opened = "closed"

\* C18: UriStyleGenerator over n >= 1 URIs delivers the GET request for
\* URI ((i-1) mod n)+1 as its i-th record, without marker, and once the i-th
\* record has been yielded and counted it publishes i/n as loop_count,
\* without rounding: n times the published value is i.
C18_LoopCountExact ==
    /\ [](kind = "uristyle" /\ pc = "yielded"
            => out = <<RenderedGet(args.uris[((nrec - 1) % Len(args.uris)) + 1],
                                   args.headers), None>>)
    /\ [][(pulling /\ kind = "uristyle" /\ pc = "yielded" /\ ammo_count = nrec)
            => loop_count' * Len(args.uris) = nrec]_vars

====
